---- MODULE Spec2Model ----
(***************************************************************************)
(* Model of src/main.py: the rate-limited dispatcher                       *)
(* (pace_requests, handle_rate_limiting, make_request_with_rate_limit) and *)
(* the per-requester operations built on it.                               *)
(*                                                                         *)
(* Time.  The program is single-threaded and reads the clock only in       *)
(* pace_requests, where every use of a stored timestamp t has the form     *)
(* current_time - t.  The model therefore keeps each timestamp as its age  *)
(* now - t, in seconds; letting d seconds pass adds d to every age.  Ages  *)
(* above WINDOW are all treated alike by the code (the entry is expired),  *)
(* so they are kept as WINDOW + 1.  The clock is taken to be monotonic.    *)
(***************************************************************************)
EXTENDS Integers, Sequences, FiniteSets, TLC

VARIABLES
    action,                 \* the action typed at the prompt (main.py:711)
    rows,                   \* input rows / requester ids still to be read
    row,                    \* the row being processed
    pc,                     \* position of the running operation
    dpc,                    \* position inside make_request_with_rate_limit
    response,               \* the local `response` of the dispatcher (main.py:90)
    REQUESTS_TIMES_QUEUE,   \* the deque of main.py:25, as ages, front first
    sends,                  \* ages of the HTTP send attempts younger than WINDOW
    slept,                  \* time.sleep arguments of the last dispatcher step
    calls,                  \* dispatcher calls of the current row, each with
                            \* the response it returned once it has returned
    printed,                \* outcomes printed for the current row
    error_log,              \* rows this run appended to ..._api_errors.csv
    success_log,            \* rows this run appended to ..._successfully_updated.csv
    processed_successfully_count,   \* main.py:529
    processed_with_errors_count,    \* main.py:530
    active                  \* remote system: is the requester active

vars == <<action, rows, row, pc, dpc, response, REQUESTS_TIMES_QUEUE,
          sends, slept, calls, printed, error_log, success_log,
          processed_successfully_count, processed_with_errors_count, active>>

\* the output of replace_secondary_emails
logs == <<error_log, success_log, processed_successfully_count,
          processed_with_errors_count>>

callerVars == <<action, rows, row, pc, printed, logs>>

----------------------------------------------------------------------------
(* Bounds of the model *)

\* main.py:24 sets 500; the model scales the ceiling down so that reaching it
\* takes a few requests instead of five hundred.
MAX_REQUESTS_PER_MINUTE == 2

\* Longest input file.
MaxRows == 2

(* Program constants *)
WINDOW == 60
LOW_REMAINING_THRESHOLD == 10
LOW_REMAINING_WAIT == 30
DEFAULT_REMAINING == 100
DEFAULT_RETRY_AFTER == 30
TRANSPORT_RETRY_WAIT == 5

(* Environment *)
\* Seconds an HTTP exchange may take.
Durations == {5}

\* A header is <<>> when absent and <<v>> when present with the integer text v.
RemainingHeaders == {<<>>, <<9>>, <<10>>}
RetryAfterHeaders == {<<>>, <<10>>}

RequesterIds == {1, 2}


----------------------------------------------------------------------------
(* Helpers *)

Min(a, b) == IF a < b THEN a ELSE b

\* response.headers.get(name, default), then int()
HeaderGet(h, default) == IF h = <<>> THEN default ELSE h[1]

\* d seconds pass: every age grows by d
Elapse(q, d) == [i \in DOMAIN q |-> Min(q[i] + d, WINDOW + 1)]

InWindow(a) == a < WINDOW

\* the send attempts of the last WINDOW seconds, after d more seconds
ElapseSends(s, d) == SelectSeq(Elapse(s, d), InWindow)

RECURSIVE SumSeq(_)
SumSeq(s) == IF s = <<>> THEN 0 ELSE s[1] + SumSeq(Tail(s))

----------------------------------------------------------------------------
(* Responses of the remote API *)

\* A response body: whether it parses as JSON (an object, an array, or not at
\* all) and, for an object, the fields the program reads ("absent" when the
\* object lacks the key).  Of requester.secondary_emails the body keeps
\* whether it is a list ("list"), another JSON value ("other") or absent, and
\* the list itself.
Body(json, code, message, isActive) ==
    [json |-> json, code |-> code, message |-> message, active |-> isActive,
     emails_type |-> "absent", secondary_emails |-> <<>>]

\* A requester object with the secondary_emails value of this type
RequesterWith(type, emails) ==
    [Body("object", "absent", "absent", "absent")
        EXCEPT !.emails_type = type, !.secondary_emails = emails]

EmptyObject == Body("object", "absent", "absent", "absent")
NotJson == Body("invalid", "absent", "absent", "absent")
JsonArray == Body("array", "absent", "absent", "absent")

\* Lists the remote may hold as a requester's secondary_emails.
ExistingEmails ==
    { <<>>, <<"a@x.com">>, <<"b@x.com", "a@x.com">>, <<"c@x.com", "c@x.com">> }

PRIMARY_SHOULD_BE_ACTIVE == "primary_requester_should_be_active"
DELETE_NOT_ALLOWED == "DELETE method is not allowed. It should be one of these method(s): GET"

Bodies(path, status) ==
    CASE path = "merge" /\ status = 400 ->
            {Body("object", PRIMARY_SHOULD_BE_ACTIVE, "absent", "absent"),
             Body("object", "other_code", "absent", "absent"),
             EmptyObject, NotJson, JsonArray}
      [] path = "delete" /\ status = 405 ->
            {Body("object", "absent", DELETE_NOT_ALLOWED, "absent"),
             Body("object", "absent", "other message", "absent"),
             NotJson, JsonArray}
      [] path = "get" /\ status = 200 ->
            {Body("object", "absent", "absent", "true"),
             Body("object", "absent", "absent", "false"),
             EmptyObject, NotJson, JsonArray,
             RequesterWith("other", <<>>)}
            \cup { RequesterWith("list", e) : e \in ExistingEmails }
      [] OTHER -> {EmptyObject}

Statuses(path) ==
    CASE path = "merge" -> {200, 204, 400, 404, 500}
      [] path = "delete" -> {204, 404, 405, 500}
      [] path = "reactivate" -> {200, 404, 500}
      [] path = "get" -> {200, 404, 500}
      [] OTHER -> {200, 400, 404, 500}

\* The responses other than 429 the remote may give to a request.
Answers(req) ==
    { [status_code |-> st, remaining |-> rem, retry_after |-> <<>>, body |-> b] :
        <<st, rem, b>> \in
            { x \in Statuses(req.path) \X RemainingHeaders
                      \X UNION { Bodies(req.path, st) : st \in Statuses(req.path) } :
                x[3] \in Bodies(req.path, x[1]) } }

\* The 429 responses.
RateLimited ==
    { [status_code |-> 429, remaining |-> rem, retry_after |-> ra, body |-> EmptyObject] :
        rem \in RemainingHeaders, ra \in RetryAfterHeaders }

\* The remote answers "primary should be active" only for an inactive primary.
Consistent(req, resp) ==
    (req.path = "merge" /\ resp.status_code = 400
        /\ resp.body.json = "object" /\ resp.body.code = PRIMARY_SHOULD_BE_ACTIVE)
    => ~active[req.id]

\* What the request does to the requester in the remote system: a 200 to
\* .../reactivate leaves it active, a 204 to DELETE leaves it inactive.
RemoteEffect(req, resp) ==
    IF req.path = "reactivate" /\ resp.status_code = 200
    THEN [active EXCEPT ![req.id] = TRUE]
    ELSE IF req.path = "delete" /\ resp.status_code = 204
    THEN [active EXCEPT ![req.id] = FALSE]
    ELSE active

NoResponse ==
    [status_code |-> 0, remaining |-> <<>>, retry_after |-> <<>>, body |-> EmptyObject]

\* What an operation reads of a response: status_code and json() / text.
Seen(resp) == [status_code |-> resp.status_code, body |-> resp.body]

NoResult == Seen(NoResponse)

----------------------------------------------------------------------------
(* Rate-limited dispatcher *)

Request(method, path, id, param) ==
    [method |-> method, path |-> path, id |-> id, param |-> param]

\* The call of make_request_with_rate_limit in progress, or the last one.
request == calls[Len(calls)].request
result == calls[Len(calls)].result

\* main.py:68-100: entering make_request_with_rate_limit as the next call of
\* the row whose earlier calls are log
Call(log, req) ==
    /\ calls' = Append(log, [request |-> req, result |-> NoResult])
    /\ dpc' = "pace"

\* Mutant of Prune: expired entries are kept.
PruneNothing(q) == q

\* main.py:36-37
RECURSIVE Prune(_)
Prune(q) ==
    IF q # <<>> /\ q[1] > WINDOW THEN Prune(Tail(q)) ELSE q

\* Mutant of MustWait: the wait starts one entry too late.
MustWaitAbove(q) == Len(q) > MAX_REQUESTS_PER_MINUTE

\* main.py:40
MustWait(q) == Len(q) >= MAX_REQUESTS_PER_MINUTE

\* main.py:41, q already pruned: 60 - (current_time - q[0])
WaitTime(q) == WINDOW - q[1]

\* Mutant of pace_requests: the clock is read again after the wait.
pace_requests_StampsAfterWait ==
    /\ dpc = "pace"
    /\ LET q == Prune(REQUESTS_TIMES_QUEUE)
           w == IF MustWait(q) THEN WaitTime(q) ELSE 0
       IN  /\ REQUESTS_TIMES_QUEUE' = Append(Elapse(q, w), 0)
           /\ sends' = ElapseSends(sends, w)
           /\ slept' = IF MustWait(q) THEN <<w>> ELSE <<>>
    /\ dpc' = "send"
    /\ UNCHANGED <<response, calls, active, callerVars>>

\* Mutant of pace_requests: the timestamp is put at the front of the deque.
pace_requests_PushesFront ==
    /\ dpc = "pace"
    /\ LET q == Prune(REQUESTS_TIMES_QUEUE)
           w == IF MustWait(q) THEN WaitTime(q) ELSE 0
       IN  /\ REQUESTS_TIMES_QUEUE' = <<w>> \o Elapse(q, w)
           /\ sends' = ElapseSends(sends, w)
           /\ slept' = IF MustWait(q) THEN <<w>> ELSE <<>>
    /\ dpc' = "send"
    /\ UNCHANGED <<response, calls, active, callerVars>>

\* main.py:27-46; the timestamp appended is the one read on entry, so after a
\* wait of w seconds its age is w.
pace_requests ==
    /\ dpc = "pace"
    /\ LET q == Prune(REQUESTS_TIMES_QUEUE)
           w == IF MustWait(q) THEN WaitTime(q) ELSE 0
       IN  /\ REQUESTS_TIMES_QUEUE' = Append(Elapse(q, w), w)
           /\ sends' = ElapseSends(sends, w)
           /\ slept' = IF MustWait(q) THEN <<w>> ELSE <<>>
    /\ dpc' = "send"
    /\ UNCHANGED <<response, calls, active, callerVars>>

\* main.py:90 with the outcome resp after d seconds
Exchange(resp, d) ==
    /\ Consistent(request, resp)
    /\ response' = resp
    /\ active' = RemoteEffect(request, resp)
    /\ sends' = ElapseSends(Append(sends, 0), d)
    /\ REQUESTS_TIMES_QUEUE' = Elapse(REQUESTS_TIMES_QUEUE, d)
    /\ slept' = <<>>
    /\ dpc' = "handle"
    /\ UNCHANGED <<calls, callerVars>>

\* main.py:90, the remote answers with a status other than 429
RequestAnswered ==
    /\ dpc = "send"
    /\ \E resp \in Answers(request), d \in Durations : Exchange(resp, d)

\* main.py:90, the remote answers 429
RequestRateLimited ==
    /\ dpc = "send"
    /\ \E resp \in RateLimited, d \in Durations : Exchange(resp, d)

\* main.py:90 raises requests.RequestException
RequestFails ==
    /\ dpc = "send"
    /\ \E d \in Durations :
        /\ sends' = ElapseSends(Append(sends, 0), d)
        /\ REQUESTS_TIMES_QUEUE' = Elapse(REQUESTS_TIMES_QUEUE, d)
    /\ slept' = <<>>
    /\ dpc' = "except"
    /\ UNCHANGED <<response, calls, active, callerVars>>

\* Mutant of LowRemainingSleeps: the wait starts at the threshold itself.
LowRemainingSleepsAtThreshold(resp) ==
    IF HeaderGet(resp.remaining, DEFAULT_REMAINING) <= LOW_REMAINING_THRESHOLD
    THEN <<LOW_REMAINING_WAIT>> ELSE <<>>

\* main.py:53-58: the wait for a low x-ratelimit-remaining
LowRemainingSleeps(resp) ==
    IF HeaderGet(resp.remaining, DEFAULT_REMAINING) < LOW_REMAINING_THRESHOLD
    THEN <<LOW_REMAINING_WAIT>> ELSE <<>>

\* main.py:63-66: the wait after a 429
RetryAfterSleeps(resp) ==
    IF resp.status_code = 429
    THEN <<HeaderGet(resp.retry_after, DEFAULT_RETRY_AFTER)>> ELSE <<>>

\* Mutant of handle_rate_limiting: the Retry-After wait comes first.
handle_rate_limiting_RetryAfterFirst(resp) ==
    RetryAfterSleeps(resp) \o LowRemainingSleeps(resp)

\* main.py:48-66: the time.sleep calls of handle_rate_limiting, in order
handle_rate_limiting(resp) == LowRemainingSleeps(resp) \o RetryAfterSleeps(resp)

\* Mutants of Returns: return whatever the status; retry until a 200.
ReturnsAnyStatus(resp) == TRUE
ReturnsOnly200(resp) == resp.status_code = 200

\* main.py:96: the loop is left with the response
Returns(resp) == resp.status_code # 429

\* main.py:93-97: handle_rate_limiting, then return the response or loop
HandleResponse ==
    /\ dpc = "handle"
    /\ slept' = handle_rate_limiting(response)
    /\ REQUESTS_TIMES_QUEUE' = Elapse(REQUESTS_TIMES_QUEUE, SumSeq(slept'))
    /\ sends' = ElapseSends(sends, SumSeq(slept'))
    /\ IF Returns(response)
       THEN /\ dpc' = "returned"
            /\ calls' = [calls EXCEPT ![Len(calls)].result = Seen(response)]
       ELSE /\ dpc' = "pace"
            /\ UNCHANGED calls
    /\ response' = NoResponse
    /\ UNCHANGED <<active, callerVars>>

\* Mutant of HandleRequestException: the exception reaches the operation.
RaiseRequestException ==
    /\ dpc = "except"
    /\ pc' = "crashed"
    /\ dpc' = "idle"
    /\ UNCHANGED <<action, rows, row, printed, response, calls, active,
                   REQUESTS_TIMES_QUEUE, sends, slept, logs>>

\* Mutant of HandleRequestException: the call is given up after the wait.
HandleRequestExceptionGivesUp ==
    /\ dpc = "except"
    /\ slept' = <<TRANSPORT_RETRY_WAIT>>
    /\ REQUESTS_TIMES_QUEUE' = Elapse(REQUESTS_TIMES_QUEUE, TRANSPORT_RETRY_WAIT)
    /\ sends' = ElapseSends(sends, TRANSPORT_RETRY_WAIT)
    /\ dpc' = "returned"
    /\ UNCHANGED <<response, calls, active, callerVars>>

\* Mutant of HandleRequestException: the failed attempt is given a new timestamp.
HandleRequestExceptionRecordsRetry ==
    /\ dpc = "except"
    /\ slept' = <<TRANSPORT_RETRY_WAIT>>
    /\ REQUESTS_TIMES_QUEUE' =
            Append(Elapse(REQUESTS_TIMES_QUEUE, TRANSPORT_RETRY_WAIT), 0)
    /\ sends' = ElapseSends(sends, TRANSPORT_RETRY_WAIT)
    /\ dpc' = "pace"
    /\ UNCHANGED <<response, calls, active, callerVars>>

\* Mutant of HandleRequestException: the request is sent again without pacing.
HandleRequestExceptionSkipsPacing ==
    /\ dpc = "except"
    /\ slept' = <<TRANSPORT_RETRY_WAIT>>
    /\ REQUESTS_TIMES_QUEUE' = Elapse(REQUESTS_TIMES_QUEUE, TRANSPORT_RETRY_WAIT)
    /\ sends' = ElapseSends(sends, TRANSPORT_RETRY_WAIT)
    /\ dpc' = "send"
    /\ UNCHANGED <<response, calls, active, callerVars>>

\* main.py:98-100, then back to the top of the loop
HandleRequestException ==
    /\ dpc = "except"
    /\ slept' = <<TRANSPORT_RETRY_WAIT>>
    /\ REQUESTS_TIMES_QUEUE' = Elapse(REQUESTS_TIMES_QUEUE, TRANSPORT_RETRY_WAIT)
    /\ sends' = ElapseSends(sends, TRANSPORT_RETRY_WAIT)
    /\ dpc' = "pace"
    /\ UNCHANGED <<response, calls, active, callerVars>>

----------------------------------------------------------------------------
(* Per-requester operations *)

Printed(op, outcome) == [op |-> op, outcome |-> outcome]

\* The current row is finished; the loop goes on with the next one.
RowDone ==
    /\ pc' = "loop"
    /\ dpc' = "idle"
    /\ UNCHANGED calls

\* An exception nothing catches ends the program.
Crash ==
    /\ pc' = "crashed"
    /\ dpc' = "idle"
    /\ UNCHANGED calls

\* main.py:108-123: the branch deactivate_requester takes.  A 405 body that is
\* a JSON array has no .get: the AttributeError is not caught ("Crash").
DeactivateOutcome(resp) ==
    CASE resp.status_code = 204 -> "Success"
      [] resp.status_code = 404 -> "NotFound"
      [] resp.status_code = 405 ->
            CASE resp.body.json = "invalid" -> "RemoteError"
              [] resp.body.json = "array" -> "Crash"
              [] OTHER -> IF resp.body.message = DELETE_NOT_ALLOWED
                          THEN "AlreadyInTargetState" ELSE "RemoteError"
      [] OTHER -> "RemoteError"

\* Mutant of ReactivateOutcome: the status is looked up after every failure.
ReactivateOutcomeAlwaysChecks(resp) ==
    IF resp.status_code = 200 THEN "Success" ELSE "CheckStatus"

\* main.py:141-173: the branch reactivate_requester takes on the PUT response
ReactivateOutcome(resp) ==
    CASE resp.status_code = 200 -> "Success"
      [] resp.status_code = 404 -> "CheckStatus"
      [] OTHER -> "RemoteError"

\* Mutant of StatusCheckOutcome: every GET 200 counts as already active.
StatusCheckOutcomeAny200(resp) ==
    CASE resp.status_code = 200 -> "AlreadyInTargetState"
      [] resp.status_code = 404 -> "NotFound"
      [] OTHER -> "RemoteError"

\* main.py:154-169: the branch taken on the follow-up GET response;
\* .get("active", False) of a body without the key is False, a body that is
\* not JSON raises the ValueError caught at line 163, and a JSON array has no
\* .get: the AttributeError is not caught ("Crash").
StatusCheckOutcome(resp) ==
    CASE resp.status_code = 200 ->
            CASE resp.body.json = "invalid" -> "RemoteError"
              [] resp.body.json = "array" -> "Crash"
              [] OTHER -> IF resp.body.active = "true"
                          THEN "AlreadyInTargetState" ELSE "RemoteError"
      [] resp.status_code = 404 -> "NotFound"
      [] OTHER -> "RemoteError"

\* Mutant of MergeOutcome: every 400 starts the recovery.
MergeOutcomeAny400(resp) ==
    CASE resp.status_code \in {200, 204} -> "Success"
      [] resp.status_code = 400 -> "Recover"
      [] resp.status_code = 404 -> "NotFound"
      [] OTHER -> "RemoteError"

\* main.py:214-252: the branch merge_requesters takes on the first merge
\* response.  response.json() of a body that is not JSON raises ValueError,
\* which only the handler around the whole loop catches (main.py:256,
\* "Abort"); a JSON array has no .get ("Crash").
MergeOutcome(resp) ==
    CASE resp.status_code \in {200, 204} -> "Success"
      [] resp.status_code = 400 ->
            CASE resp.body.json = "invalid" -> "Abort"
              [] resp.body.json = "array" -> "Crash"
              [] OTHER -> IF resp.body.code = PRIMARY_SHOULD_BE_ACTIVE
                          THEN "Recover" ELSE "RemoteError"
      [] resp.status_code = 404 -> "NotFound"
      [] OTHER -> "RemoteError"

\* Mutant of RetryMergeOutcome: the retry counts as merged whatever it returned.
RetryMergeOutcomeUnchecked(resp) == "Success"

\* main.py:231-240: the branch taken on the retried merge response
RetryMergeOutcome(resp) ==
    IF resp.status_code \in {200, 204} THEN "Success" ELSE "RemoteError"


\* main.py:736-740: the next requester id of the file
MainLoop ==
    /\ pc = "loop" /\ rows # <<>>
    /\ action \in {"deactivate", "reactivate"}
    /\ row' = Head(rows)
    /\ rows' = Tail(rows)
    /\ printed' = <<>>
    /\ IF action = "deactivate"
       THEN Call(<<>>, Request("DELETE", "delete", row'[1], 0))
       ELSE Call(<<>>, Request("PUT", "reactivate", row'[1], 0))
    /\ pc' = action
    /\ UNCHANGED <<action, response, REQUESTS_TIMES_QUEUE, sends, slept, active, logs>>

\* main.py:186-212: the next row of the merge file and its merge call
MergeLoop ==
    /\ pc = "loop" /\ rows # <<>>
    /\ action = "merge"
    /\ row' = Head(rows)
    /\ rows' = Tail(rows)
    /\ printed' = <<>>
    /\ Call(<<>>, Request("PUT", "merge", row'[1], row'[2]))
    /\ pc' = "merge"
    /\ UNCHANGED <<action, response, REQUESTS_TIMES_QUEUE, sends, slept, active, logs>>

\* main.py:214-252: the first merge call has returned
MergeReturned ==
    /\ pc = "merge" /\ dpc = "returned"
    /\ LET o == MergeOutcome(result)
       IN  CASE o = "Recover" ->
                    \* main.py:221-222
                    /\ Call(calls, Request("PUT", "reactivate", row[1], 0))
                    /\ pc' = "reactivate"
                    /\ UNCHANGED printed
             [] o = "Abort" ->
                    \* main.py:256-257: the function returns
                    /\ printed' = Append(printed, Printed("merge", o))
                    /\ pc' = "aborted"
                    /\ dpc' = "idle"
                    /\ UNCHANGED calls
             [] o = "Crash" ->
                    /\ printed' = Append(printed, Printed("merge", o))
                    /\ Crash
             [] OTHER ->
                    /\ printed' = Append(printed, Printed("merge", o))
                    /\ RowDone
    /\ UNCHANGED <<action, rows, row, response, REQUESTS_TIMES_QUEUE, sends, slept, active, logs>>

\* reactivate_requester returns: to the loop of main.py:736, or to
\* main.py:223-230, where the merge is retried
AfterReactivate ==
    IF action = "merge"
    THEN /\ Call(calls, Request("PUT", "merge", row[1], row[2]))
         /\ pc' = "retry_merge"
    ELSE RowDone

\* main.py:134-152, 171-173: reactivate_requester after its PUT has returned
ReactivateReturned ==
    /\ pc = "reactivate" /\ dpc = "returned"
    /\ IF ReactivateOutcome(result) = "CheckStatus"
       THEN /\ Call(calls, Request("GET", "get", request.id, 0))
            /\ pc' = "check_status"
            /\ UNCHANGED printed
       ELSE /\ printed' = Append(printed, Printed("reactivate", ReactivateOutcome(result)))
            /\ AfterReactivate
    /\ UNCHANGED <<action, rows, row, response, REQUESTS_TIMES_QUEUE, sends, slept, active, logs>>

\* main.py:154-169: reactivate_requester after the follow-up GET has returned
StatusCheckReturned ==
    /\ pc = "check_status" /\ dpc = "returned"
    /\ printed' = Append(printed, Printed("reactivate", StatusCheckOutcome(result)))
    /\ IF StatusCheckOutcome(result) = "Crash" THEN Crash ELSE AfterReactivate
    /\ UNCHANGED <<action, rows, row, response, REQUESTS_TIMES_QUEUE, sends, slept, active, logs>>

\* Mutant of RetryMergeReturned: no compensating deactivation.
RetryMergeReturnedNoDeactivate ==
    /\ pc = "retry_merge" /\ dpc = "returned"
    /\ printed' = Append(printed, Printed("merge", RetryMergeOutcome(result)))
    /\ RowDone
    /\ UNCHANGED <<action, rows, row, response, REQUESTS_TIMES_QUEUE, sends, slept, active, logs>>

\* main.py:231-240: the retried merge call has returned
RetryMergeReturned ==
    /\ pc = "retry_merge" /\ dpc = "returned"
    /\ printed' = Append(printed, Printed("merge", RetryMergeOutcome(result)))
    /\ IF RetryMergeOutcome(result) = "Success"
       THEN \* main.py:235-236
            /\ Call(calls, Request("DELETE", "delete", row[1], 0))
            /\ pc' = "deactivate"
       ELSE RowDone
    /\ UNCHANGED <<action, rows, row, response, REQUESTS_TIMES_QUEUE, sends, slept, active, logs>>

\* main.py:106-123: deactivate_requester after its DELETE has returned; both
\* callers (main.py:738, main.py:236) then go on to their next row
DeactivateReturned ==
    /\ pc = "deactivate" /\ dpc = "returned"
    /\ printed' = Append(printed, Printed("deactivate", DeactivateOutcome(result)))
    /\ IF DeactivateOutcome(result) = "Crash" THEN Crash ELSE RowDone
    /\ UNCHANGED <<action, rows, row, response, REQUESTS_TIMES_QUEUE, sends, slept, active, logs>>

\* main.py:596: int(requester_id_str) of the texts the input files hold
IsInteger(text) == text \in {"1", "02"}
ToInt(text) == CASE text = "1" -> 1 [] text = "02" -> 2

\* main.py:613, 636: the requester id as the log files' writer renders it
ToText(id) == CASE id = 1 -> "1" [] id = 2 -> "2"

\* A row of the error log (main.py:523); status_code is <<>> for "N/A", and
\* the "Row <number>" of a row without an id is kept without its number.
ErrorEntry(id, operation, status) ==
    [requester_id |-> id, operation |-> operation, status_code |-> status]

\* Mutant of RowError: the log row is written but the row is not counted.
RowErrorUncounted(entry) ==
    /\ error_log' = Append(error_log, entry)
    /\ UNCHANGED <<success_log, processed_successfully_count,
                   processed_with_errors_count>>

\* main.py:588-589, 678-679: the row counts as an error, with this log row
RowError(entry) ==
    /\ error_log' = Append(error_log, entry)
    /\ processed_with_errors_count' = processed_with_errors_count + 1
    /\ UNCHANGED <<success_log, processed_successfully_count>>

\* main.py:576-609: the next data row of the replace file, up to its clear call
ReplaceLoop ==
    /\ pc = "loop" /\ rows # <<>>
    /\ action = "replace_secondary_emails"
    /\ row' = Head(rows)
    /\ rows' = Tail(rows)
    /\ printed' = <<>>
    /\ IF row'[1] = ""
       THEN \* main.py:578-590
            /\ RowError(ErrorEntry("Row", "check_data_row_exists", <<>>))
            /\ calls' = <<>>
            /\ UNCHANGED <<pc, dpc>>
       ELSE IF ~IsInteger(row'[1])
       THEN \* main.py:658-666, 678-679
            /\ RowError(ErrorEntry(row'[1], "check_requester_id_format", <<>>))
            /\ calls' = <<>>
            /\ UNCHANGED <<pc, dpc>>
       ELSE /\ Call(<<>>, Request("PUT", "requester", ToInt(row'[1]), "clear"))
            /\ pc' = "clear"
            /\ UNCHANGED logs
    /\ UNCHANGED <<action, response, REQUESTS_TIMES_QUEUE, sends, slept, active>>

\* Mutant of ClearReturned: the set call is made whatever the clear call returned.
ClearReturnedAlwaysSets ==
    /\ pc = "clear" /\ dpc = "returned"
    /\ IF result.status_code # 200
       THEN RowError(ErrorEntry(ToText(request.id), "clear_secondary_emails", <<result.status_code>>))
       ELSE UNCHANGED logs
    /\ Call(calls, Request("PUT", "requester", request.id, "set"))
    /\ pc' = "set"
    /\ UNCHANGED <<action, rows, row, printed, response, REQUESTS_TIMES_QUEUE,
                   sends, slept, active>>

\* main.py:611-631, 678-679: the clear call has returned
ClearReturned ==
    /\ pc = "clear" /\ dpc = "returned"
    /\ IF result.status_code # 200
       THEN /\ RowError(ErrorEntry(ToText(request.id), "clear_secondary_emails", <<result.status_code>>))
            /\ RowDone
       ELSE /\ Call(calls, Request("PUT", "requester", request.id, "set"))
            /\ pc' = "set"
            /\ UNCHANGED logs
    /\ UNCHANGED <<action, rows, row, printed, response, REQUESTS_TIMES_QUEUE,
                   sends, slept, active>>

\* main.py:633-656, 678-679: the set call has returned
SetReturned ==
    /\ pc = "set" /\ dpc = "returned"
    /\ IF result.status_code = 200
       THEN /\ success_log' = Append(success_log,
                    [requester_id |-> ToText(request.id), secondary_emails |-> row[2]])
            /\ processed_successfully_count' = processed_successfully_count + 1
            /\ UNCHANGED <<error_log, processed_with_errors_count>>
       ELSE RowError(ErrorEntry(ToText(request.id), "set_secondary_emails", <<result.status_code>>))
    /\ RowDone
    /\ UNCHANGED <<action, rows, row, printed, response, REQUESTS_TIMES_QUEUE,
                   sends, slept, active>>

\* str.strip() of the cells the input files hold
Strip(text) == IF text = " b@x.com" THEN "b@x.com" ELSE text

NonEmpty(text) == text # ""

\* main.py:400: [email.strip() for email in row[1:] if email.strip()]
EmailsToAdd(cells) ==
    SelectSeq([i \in DOMAIN cells |-> Strip(cells[i])], NonEmpty)

\* set(list): the elements of the list
SetOf(list) == { list[i] : i \in DOMAIN list }

\* list(set): the elements once each, in the order the hashing gives
ListsOf(S) ==
    { l \in [1..Cardinality(S) -> S] : SetOf(l) = S }

\* Mutant of NewSecondaryEmails: the two lists are concatenated.
NewSecondaryEmailsConcatenated(existing, toAdd) == { existing \o toAdd }

\* main.py:418: list(set(existing_secondary_emails + secondary_emails_to_add))
NewSecondaryEmails(existing, toAdd) == ListsOf(SetOf(existing \o toAdd))

\* Mutant of FetchOutcome: the type of secondary_emails is not looked at.
FetchOutcomeAnyType(resp) ==
    CASE resp.status_code = 200 ->
            CASE resp.body.json = "invalid" -> "ValueError"
              [] resp.body.json = "array" -> "UnexpectedError"
              [] OTHER -> "Update"
      [] resp.status_code = 404 -> "NotFound"
      [] OTHER -> "RemoteError"

\* main.py:410-434, 436-439: the branch add_secondary_emails takes on the GET
\* response.  json() of a body that is not JSON raises the ValueError caught
\* at line 436, .get of a JSON array the AttributeError caught at line 438;
\* both end the row.
FetchOutcome(resp) ==
    CASE resp.status_code = 200 ->
            CASE resp.body.json = "invalid" -> "ValueError"
              [] resp.body.json = "array" -> "UnexpectedError"
              [] resp.body.emails_type = "other" -> "UnexpectedFormat"
              [] OTHER -> "Update"
      [] resp.status_code = 404 -> "NotFound"
      [] OTHER -> "RemoteError"

\* main.py:393-408: the next data row of the add file, up to its GET call
AddLoop ==
    /\ pc = "loop" /\ rows # <<>>
    /\ action = "add_secondary_emails"
    /\ row' = Head(rows)
    /\ rows' = Tail(rows)
    /\ IF row'[2] = <<>>
       THEN \* main.py:394-396
            /\ printed' = <<Printed("add", "InvalidRow")>>
            /\ calls' = <<>>
            /\ UNCHANGED <<pc, dpc>>
       ELSE IF ~IsInteger(row'[1])
       THEN \* main.py:399, 436-437
            /\ printed' = <<Printed("add", "ValueError")>>
            /\ calls' = <<>>
            /\ UNCHANGED <<pc, dpc>>
       ELSE IF EmailsToAdd(row'[2]) = <<>>
       THEN \* main.py:403-405
            /\ printed' = <<Printed("add", "NothingToAdd")>>
            /\ calls' = <<>>
            /\ UNCHANGED <<pc, dpc>>
       ELSE /\ printed' = <<>>
            /\ Call(<<>>, Request("GET", "get", ToInt(row'[1]), 0))
            /\ pc' = "fetch"
    /\ UNCHANGED <<action, response, REQUESTS_TIMES_QUEUE, sends, slept, active, logs>>

\* main.py:410-434: the GET call has returned
FetchReturned ==
    /\ pc = "fetch" /\ dpc = "returned"
    /\ IF FetchOutcome(result) = "Update"
       THEN /\ \E new_secondary_emails \in
                    NewSecondaryEmails(result.body.secondary_emails, EmailsToAdd(row[2])) :
                  Call(calls, Request("PUT", "requester", request.id, new_secondary_emails))
            /\ pc' = "update"
            /\ UNCHANGED printed
       ELSE /\ printed' = Append(printed, Printed("add", FetchOutcome(result)))
            /\ RowDone
    /\ UNCHANGED <<action, rows, row, response, REQUESTS_TIMES_QUEUE, sends, slept, active, logs>>

\* main.py:427-430: the PUT call has returned
UpdateReturned ==
    /\ pc = "update" /\ dpc = "returned"
    /\ printed' = Append(printed, Printed("add",
            IF result.status_code = 200 THEN "Success" ELSE "RemoteError"))
    /\ RowDone
    /\ UNCHANGED <<action, rows, row, response, REQUESTS_TIMES_QUEUE, sends, slept, active, logs>>

\* main.py:277-302: the next row of the update file, up to its first PUT
UpdateEmailsLoop ==
    /\ pc = "loop" /\ rows # <<>>
    /\ action = "update_requester_emails"
    /\ row' = Head(rows)
    /\ rows' = Tail(rows)
    /\ IF Len(row') < 3
       THEN \* main.py:278-280
            /\ printed' = <<Printed("update_emails", "InvalidRow")>>
            /\ calls' = <<>>
            /\ UNCHANGED <<pc, dpc>>
       ELSE IF ~IsInteger(row'[1])
       THEN \* main.py:283, 330-331
            /\ printed' = <<Printed("update_emails", "ValueError")>>
            /\ calls' = <<>>
            /\ UNCHANGED <<pc, dpc>>
       ELSE /\ printed' = <<>>
            /\ Call(<<>>, Request("PUT", "requester", ToInt(row'[1]),
                                  <<"primary_email", Strip(row'[2])>>))
            /\ pc' = "set_primary"
    /\ UNCHANGED <<action, response, REQUESTS_TIMES_QUEUE, sends, slept, active, logs>>

\* Mutant of PrimaryReturned: the second call is made whatever the first returned.
PrimaryReturnedAlwaysGoesOn ==
    /\ pc = "set_primary" /\ dpc = "returned"
    /\ printed' = Append(printed, Printed("set_primary",
            IF result.status_code = 200 THEN "Success" ELSE "RemoteError"))
    /\ Call(calls, Request("PUT", "requester", request.id,
                           <<"secondary_emails", Strip(row[3])>>))
    /\ pc' = "set_secondary"
    /\ UNCHANGED <<action, rows, row, response, REQUESTS_TIMES_QUEUE, sends, slept, active, logs>>

\* main.py:304-323: the first PUT has returned
PrimaryReturned ==
    /\ pc = "set_primary" /\ dpc = "returned"
    /\ printed' = Append(printed, Printed("set_primary",
            IF result.status_code = 200 THEN "Success" ELSE "RemoteError"))
    /\ IF result.status_code = 200
       THEN /\ Call(calls, Request("PUT", "requester", request.id,
                                   <<"secondary_emails", Strip(row[3])>>))
            /\ pc' = "set_secondary"
       ELSE RowDone
    /\ UNCHANGED <<action, rows, row, response, REQUESTS_TIMES_QUEUE, sends, slept, active, logs>>

\* main.py:325-328: the second PUT has returned
SecondaryReturned ==
    /\ pc = "set_secondary" /\ dpc = "returned"
    /\ printed' = Append(printed, Printed("set_secondary",
            IF result.status_code = 200 THEN "Success" ELSE "RemoteError"))
    /\ RowDone
    /\ UNCHANGED <<action, rows, row, response, REQUESTS_TIMES_QUEUE, sends, slept, active, logs>>

\* Mutant of ExternalIdOutcome: a 404 is reported like any other failure.
ExternalIdOutcomeNo404(resp) ==
    IF resp.status_code = 200 THEN "Success" ELSE "RemoteError"

\* main.py:488-494: the branch update_requester_external_id takes
ExternalIdOutcome(resp) ==
    CASE resp.status_code = 200 -> "Success"
      [] resp.status_code = 404 -> "NotFound"
      [] OTHER -> "RemoteError"

\* main.py:464-486: the next data row of the external id file and its PUT
ExternalIdLoop ==
    /\ pc = "loop" /\ rows # <<>>
    /\ action = "update_external_id"
    /\ row' = Head(rows)
    /\ rows' = Tail(rows)
    /\ IF Len(row') < 2
       THEN \* main.py:465-467
            /\ printed' = <<Printed("update_external_id", "InvalidRow")>>
            /\ calls' = <<>>
            /\ UNCHANGED <<pc, dpc>>
       ELSE IF ~IsInteger(row'[1])
       THEN \* main.py:470, 496-497
            /\ printed' = <<Printed("update_external_id", "ValueError")>>
            /\ calls' = <<>>
            /\ UNCHANGED <<pc, dpc>>
       ELSE /\ printed' = <<>>
            /\ Call(<<>>, Request("PUT", "requester", ToInt(row'[1]),
                                  <<"external_id", Strip(row'[2])>>))
            /\ pc' = "update_external_id"
    /\ UNCHANGED <<action, response, REQUESTS_TIMES_QUEUE, sends, slept, active, logs>>

\* main.py:488-494: the PUT has returned
ExternalIdReturned ==
    /\ pc = "update_external_id" /\ dpc = "returned"
    /\ printed' = Append(printed, Printed("update_external_id", ExternalIdOutcome(result)))
    /\ RowDone
    /\ UNCHANGED <<action, rows, row, response, REQUESTS_TIMES_QUEUE, sends, slept, active, logs>>

----------------------------------------------------------------------------
(* Specifications *)

RECURSIVE SeqsUpTo(_, _)
SeqsUpTo(S, n) ==
    IF n = 0 THEN {<<>>}
    ELSE LET shorter == SeqsUpTo(S, n - 1)
         IN  shorter \cup { Append(q, x) : q \in shorter, x \in S }

InitCommon ==
    /\ row = <<>>
    /\ pc = "loop"
    /\ dpc = "idle"
    /\ response = NoResponse
    /\ REQUESTS_TIMES_QUEUE = <<>>
    /\ sends = <<>>
    /\ slept = <<>>
    /\ calls = <<>>
    /\ printed = <<>>
    /\ error_log = <<>>
    /\ success_log = <<>>
    /\ processed_successfully_count = 0
    /\ processed_with_errors_count = 0
    /\ active \in [RequesterIds -> BOOLEAN]

\* The program run with action deactivate or reactivate on a non-empty list
\* of requester ids (main.py:717-740); the file names requester 1 on each line.
Init ==
    /\ action \in {"deactivate", "reactivate"}
    /\ rows \in SeqsUpTo({ <<1>> }, MaxRows) \ {<<>>}
    /\ InitCommon

Next ==
    \/ MainLoop
    \/ DeactivateReturned
    \/ ReactivateReturned
    \/ StatusCheckReturned
    \/ pace_requests
    \/ RequestAnswered
    \/ RequestRateLimited
    \/ RequestFails
    \/ HandleResponse
    \/ HandleRequestException

Spec == Init /\ [][Next]_vars

\* The program run with action merge (main.py:742-755).
MergeRows == { <<p, s>> : <<p, s>> \in { x \in RequesterIds \X RequesterIds : x[1] # x[2] } }

InitMerge ==
    /\ action = "merge"
    /\ rows \in SeqsUpTo(MergeRows, MaxRows)
    /\ InitCommon

\* An operation sees of a dispatcher call only the response it returns, which
\* is the first answer that is not a 429 (ReturnsFirstNon429,
\* TransportFailureHidden); the specifications of the batch operations
\* therefore let the remote answer every send.
NextMerge ==
    \/ MergeLoop
    \/ MergeReturned
    \/ ReactivateReturned
    \/ StatusCheckReturned
    \/ RetryMergeReturned
    \/ DeactivateReturned
    \/ pace_requests
    \/ RequestAnswered
    \/ HandleResponse

MergeSpec == InitMerge /\ [][NextMerge]_vars


\* The program run with action reactivate under the scheduling the code has:
\* the single thread always takes its next step, and a remote that keeps being
\* asked answers at some point with a status other than 429.
InitLive ==
    /\ action = "reactivate"
    /\ rows = << <<1>> >>
    /\ InitCommon
    /\ active = [i \in RequesterIds |-> FALSE]

NextLive ==
    \/ MainLoop
    \/ ReactivateReturned
    \/ StatusCheckReturned
    \/ pace_requests
    \/ RequestAnswered
    \/ RequestRateLimited
    \/ RequestFails
    \/ HandleResponse
    \/ HandleRequestException

LiveSpec ==
    InitLive /\ [][NextLive]_vars /\ WF_vars(NextLive) /\ SF_vars(RequestAnswered)

\* The program run with action replace_secondary_emails (main.py:802-816) on a
\* file with a valid header; a data row is its requester_id text and emails.
ReplaceRows == { <<t, <<"a@x.com">> >> : t \in {"1", "02", "", "abc"} }

InitReplace ==
    /\ action = "replace_secondary_emails"
    /\ rows \in SeqsUpTo(ReplaceRows, MaxRows)
    /\ InitCommon

NextReplace ==
    \/ ReplaceLoop
    \/ ClearReturned
    \/ SetReturned
    \/ pace_requests
    \/ RequestAnswered
    \/ HandleResponse

ReplaceSpec == InitReplace /\ [][NextReplace]_vars

\* The program run with action add_secondary_emails (main.py:786-800) on a
\* file with a valid header; a data row is its requester_id text and the
\* cells after it.
AddRows ==
    { <<"1", cells>> : cells \in { <<>>, <<"">>, <<"a@x.com">>,
                                   <<" b@x.com", "a@x.com">>, <<"c@x.com", "", "c@x.com">> } }
    \cup { <<"abc", <<"a@x.com">> >> }

InitAdd ==
    /\ action = "add_secondary_emails"
    /\ rows \in SeqsUpTo(AddRows, MaxRows)
    /\ InitCommon

NextAdd ==
    \/ AddLoop
    \/ FetchReturned
    \/ UpdateReturned
    \/ pace_requests
    \/ RequestAnswered
    \/ HandleResponse

AddSpec == InitAdd /\ [][NextAdd]_vars

\* The program run with action update_requester_emails (main.py:757-770); a
\* row is its requester id text, primary email and secondary email.
UpdateEmailsRows ==
    { <<"1", "a@x.com", " b@x.com">>, <<"02", "a@x.com", "a@x.com">>,
      <<"abc", "a@x.com", "a@x.com">>, <<"1", "a@x.com">> }

InitUpdateEmails ==
    /\ action = "update_requester_emails"
    /\ rows \in SeqsUpTo(UpdateEmailsRows, MaxRows)
    /\ InitCommon

NextUpdateEmails ==
    \/ UpdateEmailsLoop
    \/ PrimaryReturned
    \/ SecondaryReturned
    \/ pace_requests
    \/ RequestAnswered
    \/ HandleResponse

UpdateEmailsSpec == InitUpdateEmails /\ [][NextUpdateEmails]_vars

\* The program run with action update_external_id (main.py:787-800) on a file
\* with the header requester_id,external_id; a data row is its cells.
ExternalIdRows ==
    { <<"1", "x1">>, <<"02", " b@x.com">>, <<"abc", "x1">>, <<"1">> }

InitExternalId ==
    /\ action = "update_external_id"
    /\ rows \in SeqsUpTo(ExternalIdRows, MaxRows)
    /\ InitCommon

NextExternalId ==
    \/ ExternalIdLoop
    \/ ExternalIdReturned
    \/ pace_requests
    \/ RequestAnswered
    \/ HandleResponse

ExternalIdSpec == InitExternalId /\ [][NextExternalId]_vars

----------------------------------------------------------------------------
(* Properties of the dispatcher *)

InCall == dpc \in {"pace", "send", "handle", "except"}

\* The first row of a file of MaxRows rows is being processed.
InFirstRow == Len(rows) = MaxRows - 1 /\ pc # "loop"

\* C1: no 60-second interval holds more than MAX_REQUESTS_PER_MINUTE send
\* attempts: at every instant the send attempts of the last WINDOW seconds,
\* retries included, number at most MAX_REQUESTS_PER_MINUTE.
PacingInvariant == Len(sends) <= MAX_REQUESTS_PER_MINUTE

\* C2: a call returns the first response whose status is not 429: every
\* response handled either is a 429, and the call goes back to pacing without
\* returning, or is returned as it is at once; no call ever holds a 429 as
\* its result, and after the return the next pacing step belongs to a new call.
ReturnsFirstNon429 ==
    /\ [](\A i \in DOMAIN calls : calls[i].result.status_code # 429)
    /\ [](dpc = "returned" => result.status_code \notin {0, 429})
    /\ [][dpc = "handle" =>
            IF response.status_code = 429
            THEN dpc' = "pace" /\ calls' = calls
            ELSE dpc' = "returned" /\ result' = Seen(response)
                 /\ Len(calls') = Len(calls)]_vars
    /\ [][dpc = "returned" =>
            /\ dpc' \in {"idle", "pace"}
            /\ dpc' = "pace" => calls'[Len(calls')].result = NoResult]_vars

\* C2 witness: the first call of a run has returned after two send attempts.
ReturnedAfterRetry ==
    /\ InFirstRow /\ Len(calls) = 1 /\ dpc = "returned"
    /\ Len(REQUESTS_TIMES_QUEUE) = 2

\* C3: under LiveSpec every call returns; and a call is left in no other way
\* than by returning a response: after a 429 and after a transport failure
\* the loop goes on, however often that has happened.
EveryCallReturns ==
    /\ InCall ~> dpc = "returned"
    /\ [][InCall => (dpc' = "returned" \/ InCall')]_vars
    /\ [][dpc = "except" => dpc' = "pace"]_vars
    /\ [][(dpc = "handle" /\ response.status_code = 429) => dpc' = "pace"]_vars

\* C3 witness: the first call of the run has returned after a 429 without
\* Retry-After: its two timestamps are one exchange plus the default 30
\* seconds apart.
ReturnedAfterRateLimit ==
    /\ pc = "reactivate" /\ Len(calls) = 1 /\ dpc = "returned"
    /\ REQUESTS_TIMES_QUEUE = <<40, 5>>

\* C4: a transport failure makes the dispatcher sleep 5 seconds and go back
\* to the pacing step of the same call, leaving the operation where it was; the
\* operation moves on only from a returned response.
TransportFailureHidden ==
    /\ [][dpc = "except" =>
            /\ dpc' = "pace"
            /\ slept' = <<5>>
            /\ calls' = calls
            /\ UNCHANGED callerVars]_vars
    /\ [][dpc = "send" => dpc' \in {"handle", "except"} /\ UNCHANGED callerVars]_vars
    /\ [][pc' # pc => (pc = "loop" \/ (dpc = "returned" /\ result.status_code # 0))]_vars

\* C4 witness: the first call returned although its first send failed: the
\* timestamps appended are one exchange plus the 5 seconds apart.
ReturnedAfterTransportFailure ==
    /\ InFirstRow /\ Len(calls) = 1 /\ dpc = "returned"
    /\ REQUESTS_TIMES_QUEUE = <<15, 5>>

\* The call in progress or last made has returned a response to its caller.
LastCallReturned == calls # <<>> => result.status_code \notin {0, 429}

\* A step that enters make_request_with_rate_limit for a new call
NewCall ==
    /\ calls' # calls /\ calls' # <<>>
    /\ calls'[Len(calls')].result = NoResult

\* C18: the dispatcher works on one call at a time, the last one of the log:
\* every earlier call of the row has returned a response other than 429, and
\* while the dispatcher is pacing, sending or handling, the last call has not
\* returned; a new call is entered only from outside the dispatcher, after
\* the call before it has returned a response other than 429, and it starts
\* with its pacing step.
RequestsSerialized ==
    /\ [](\A i \in 1..(Len(calls) - 1) : calls[i].result.status_code \notin {0, 429})
    /\ [](InCall => calls # <<>> /\ result = NoResult)
    /\ [][NewCall => /\ dpc \in {"idle", "returned"}
                     /\ LastCallReturned
                     /\ dpc' = "pace"]_vars
    /\ [][(InCall /\ ~InCall') => (dpc' = "returned" /\ LastCallReturned')]_vars

\* C18 witness: the GET of a reactivation is about to be paced after the PUT
\* before it has returned from its second send, the first having failed.
SecondCallAfterRetriesOfFirst ==
    /\ pc = "check_status" /\ dpc = "pace"
    /\ Len(calls) = 2 /\ result = NoResult
    /\ REQUESTS_TIMES_QUEUE = <<15, 5>>

\* The timestamps of the deque that lie in the trailing window (now - 60, now].
InBudgetWindow == SelectSeq(REQUESTS_TIMES_QUEUE, InWindow)

\* C13: in every state the deque holds at most MAX_REQUESTS_PER_MINUTE
\* timestamps younger than WINDOW seconds.  Right after a wait the deque itself
\* is one entry longer: the entry the wait was computed from is still in it,
\* and it is exactly WINDOW seconds old when the wait ends.
BudgetSizeInvariant == Len(InBudgetWindow) <= MAX_REQUESTS_PER_MINUTE

\* C13 witness: pace_requests has just waited and appended its timestamp; the
\* deque holds one entry more than the ceiling, the oldest one expired.
AppendedAfterWait ==
    /\ dpc = "send" /\ slept # <<>>
    /\ Len(REQUESTS_TIMES_QUEUE) = MAX_REQUESTS_PER_MINUTE + 1
    /\ Len(InBudgetWindow) = MAX_REQUESTS_PER_MINUTE

\* C21: the step that handles a 429 sleeps the Retry-After seconds of the
\* response, 30 when the header is absent, after the fixed 30 seconds if the
\* response also carries x-ratelimit-remaining below 10; it then goes back to
\* the pacing step, which is followed by the next send of the same call.
RateLimitedWaitsThenResends ==
    /\ [][(dpc = "handle" /\ response.status_code = 429) =>
            LET retry_after == IF response.retry_after = <<>>
                               THEN 30 ELSE response.retry_after[1]
                low == response.remaining # <<>> /\ response.remaining[1] < 10
            IN  /\ slept' = IF low THEN <<30, retry_after>> ELSE <<retry_after>>
                /\ dpc' = "pace"
                /\ calls' = calls]_vars
    /\ [][dpc = "pace" => (dpc' = "send" /\ calls' = calls)]_vars

\* C21 witness: a 429 with a low x-ratelimit-remaining and Retry-After 10 has
\* been handled: 30 seconds of sleep, then 10, and the call is back at pacing.
SleptBothWaits == dpc = "pace" /\ slept = <<30, 10>>

\* C22: the step that handles a response, whatever its status, starts with
\* the fixed sleep of 30 seconds exactly if the response carries an
\* x-ratelimit-remaining below 10; with a value of 10 or more or without the
\* header its only sleep is the Retry-After one of a 429.
LowRemainingSlowsDown ==
    [][dpc = "handle" =>
        LET low == response.remaining # <<>> /\ response.remaining[1] < 10
            after429 == IF response.status_code = 429
                        THEN <<IF response.retry_after = <<>>
                               THEN 30 ELSE response.retry_after[1]>>
                        ELSE <<>>
        IN  slept' = IF low THEN <<30>> \o after429 ELSE after429]_vars

\* C22 witness: the first response of a run, not a 429, carried a low
\* x-ratelimit-remaining: the call returned after 30 seconds of sleep.
ReturnedAfterSlowDown ==
    /\ dpc = "returned" /\ slept = <<30>>
    /\ REQUESTS_TIMES_QUEUE = <<35>>

\* The deque holds the same timestamps after the step, d seconds later.
SameTimestamps(d) == REQUESTS_TIMES_QUEUE' = Elapse(REQUESTS_TIMES_QUEUE, d)

\* C23: every step but the pacing step leaves the timestamps of the deque as
\* they are (their ages all grow by the time the step takes); the pacing step
\* removes entries from the front only and appends exactly one timestamp.
BudgetFrame ==
    /\ [][dpc # "pace" => \E d \in 0..(WINDOW + 1) : SameTimestamps(d)]_vars
    /\ [][dpc = "pace" =>
            \E k \in 0..Len(REQUESTS_TIMES_QUEUE), w \in 0..WINDOW :
                REQUESTS_TIMES_QUEUE' =
                    Append(Elapse(SubSeq(REQUESTS_TIMES_QUEUE, k + 1,
                                         Len(REQUESTS_TIMES_QUEUE)), w), w)]_vars

\* C23 witness: the pacing step of the follow-up GET of a reactivation has
\* pruned every earlier timestamp and appended its own.
PrunedAllAndAppended ==
    /\ pc = "check_status" /\ dpc = "send"
    /\ REQUESTS_TIMES_QUEUE = <<0>>

\* The step makes a send attempt: requests.request is called.
SendAttempt == dpc = "send" /\ dpc' \in {"handle", "except"}

\* C24: pacing steps and send attempts alternate, so that as many timestamps
\* are appended as requests are sent: the dispatcher comes to a send only by
\* a pacing step, which makes the deque one entry longer than what its
\* pruning left; the step after a pacing step is the send attempt, the only
\* kind of step that sends; and after a 429 or a transport failure the next
\* send comes after a pacing step again.
OneTimestampPerSend ==
    /\ [][dpc' = "send" =>
            /\ dpc = "pace"
            /\ Len(REQUESTS_TIMES_QUEUE') = Len(Prune(REQUESTS_TIMES_QUEUE)) + 1]_vars
    /\ [][dpc = "pace" => dpc' = "send"]_vars
    /\ [][dpc = "send" => SendAttempt]_vars
    /\ [][Len(sends') > Len(sends) => SendAttempt]_vars
    /\ [][(dpc = "handle" \/ dpc = "except")
            => (dpc' = "pace" \/ dpc' = "returned")]_vars
    /\ [][(dpc = "except" \/ (dpc = "handle" /\ response.status_code = 429))
            => dpc' = "pace"]_vars

\* C24 witness: the second send of a call whose first send failed at
\* transport level is about to be made, with the second timestamp appended.
SecondSlotAfterTransportFailure ==
    /\ InFirstRow /\ Len(calls) = 1 /\ dpc = "send"
    /\ REQUESTS_TIMES_QUEUE = <<10, 0>>
    /\ sends = <<10>>

\* C25: when the request is about to be sent, the timestamp appended for it is
\* as old as the pacing step has slept: it is the send time if there was no
\* wait, and the full wait earlier if there was one; and after a wait the
\* deque still holds the entry the wait was computed from, 60 seconds old,
\* in front of the other entries it held.
StampedBeforeWait ==
    /\ [](dpc = "send" =>
            /\ REQUESTS_TIMES_QUEUE # <<>>
            /\ REQUESTS_TIMES_QUEUE[Len(REQUESTS_TIMES_QUEUE)] = SumSeq(slept)
            /\ slept # <<>> =>
                  /\ REQUESTS_TIMES_QUEUE[1] = WINDOW
                  /\ Len(REQUESTS_TIMES_QUEUE) > MAX_REQUESTS_PER_MINUTE)
    /\ [][dpc = "pace" =>
            Len(REQUESTS_TIMES_QUEUE') = Len(Prune(REQUESTS_TIMES_QUEUE)) + 1]_vars

\* C25 witness: after a wait of 45 seconds the request is about to be sent
\* with a timestamp 45 seconds old.
StampLagsSendByWait ==
    /\ dpc = "send" /\ slept = <<45>>
    /\ REQUESTS_TIMES_QUEUE[Len(REQUESTS_TIMES_QUEUE)] = 45
    /\ REQUESTS_TIMES_QUEUE[1] = 60

\* C28: whenever the pacing step is about to wait, the wait it computes from
\* the pruned deque lies between 0 and 60 seconds, and so does the wait it has
\* just made when the request is about to be sent.
WaitWithinWindow ==
    /\ dpc = "pace" =>
          LET q == Prune(REQUESTS_TIMES_QUEUE)
          IN  MustWait(q) => (0 <= WaitTime(q) /\ WaitTime(q) <= 60)
    /\ dpc = "send" => \A i \in DOMAIN slept : 0 <= slept[i] /\ slept[i] <= 60

\* C28 witness: the pacing step is about to wait although the oldest entry is
\* 60 seconds old already: the wait is 0.
WaitOfZero ==
    /\ dpc = "pace"
    /\ MustWait(Prune(REQUESTS_TIMES_QUEUE))
    /\ WaitTime(Prune(REQUESTS_TIMES_QUEUE)) = 0

\* main.py:36: an entry the pruning loop does not pop when it is in front
Unexpired(a) == a <= WINDOW

\* C29: in every state the timestamps of the deque are in non-decreasing
\* order from front to back (their ages do not increase), so that what the
\* pruning loop leaves when the pacing step starts is exactly the unexpired
\* entries: every expired one is removed and no other.
BudgetSorted ==
    /\ \A i, j \in DOMAIN REQUESTS_TIMES_QUEUE :
          i < j => REQUESTS_TIMES_QUEUE[i] >= REQUESTS_TIMES_QUEUE[j]
    /\ dpc = "pace" =>
          Prune(REQUESTS_TIMES_QUEUE) = SelectSeq(REQUESTS_TIMES_QUEUE, Unexpired)

\* C29 witness: the pacing step starts with expired entries in front of
\* unexpired ones.
PruneRemovesSome ==
    /\ dpc = "pace"
    /\ Len(REQUESTS_TIMES_QUEUE) >= 2
    /\ ~Unexpired(REQUESTS_TIMES_QUEUE[1])
    /\ Unexpired(REQUESTS_TIMES_QUEUE[Len(REQUESTS_TIMES_QUEUE)])
    /\ Len(Prune(REQUESTS_TIMES_QUEUE)) < Len(REQUESTS_TIMES_QUEUE)

----------------------------------------------------------------------------
(* Properties of merge_requesters *)

\* A row has been processed to its end and the loop is about to read on.
RowFinished == pc = "loop" /\ calls # <<>>

Paths == [i \in DOMAIN calls |-> calls[i].request.path]
StatusCodes == [i \in DOMAIN calls |-> calls[i].result.status_code]

IsMerge(p) == p.op = "merge"

\* What the row printed about the merge itself.
MergePrinted == SelectSeq(printed, IsMerge)

\* 400 with code primary_requester_should_be_active
AsksForActivePrimary(res) ==
    /\ res.status_code = 400
    /\ res.body.json = "object"
    /\ res.body.code = PRIMARY_SHOULD_BE_ACTIVE

\* The row retried its merge, and the retry returned status st.
RetryReturned(st) ==
    \E k \in DOMAIN calls : k > 1 /\ Paths[k] = "merge" /\ StatusCodes[k] = st

\* C5: a finished row whose first merge was answered 400
\* primary_requester_should_be_active, whose reactivate calls were answered
\* 200, whose later merge calls 200 or 204 and whose DELETE calls 204 has
\* issued exactly the calls merge, reactivate, merge, DELETE, in this order,
\* and has printed Success for the merge.
RecoverySuccessPath ==
    ( /\ RowFinished
      /\ AsksForActivePrimary(calls[1].result)
      /\ \A i \in 2..Len(calls) :
            CASE Paths[i] = "reactivate" -> StatusCodes[i] = 200
              [] Paths[i] = "merge" -> StatusCodes[i] \in {200, 204}
              [] Paths[i] = "delete" -> StatusCodes[i] = 204
              [] OTHER -> FALSE )
    => /\ Paths = <<"merge", "reactivate", "merge", "delete">>
       /\ [i \in DOMAIN calls |-> calls[i].request.method] = <<"PUT", "PUT", "PUT", "DELETE">>
       /\ MergePrinted = <<Printed("merge", "Success")>>

\* C5 witness: such a row, with the retried merge answered 204.
RecoverySucceeded ==
    /\ RowFinished
    /\ Paths = <<"merge", "reactivate", "merge", "delete">>
    /\ StatusCodes = <<400, 200, 204, 204>>
    /\ MergePrinted = <<Printed("merge", "Success")>>

\* C6: a finished row whose retried merge returned a status other than 200 and
\* 204 has printed RemoteError for the merge and issued no DELETE, and if its
\* reactivate call was answered 200 the primary is active.
FailedRetryLeavesPrimaryActive ==
    ( /\ RowFinished
      /\ \E st \in Statuses("merge") \ {200, 204} : RetryReturned(st) )
    => /\ MergePrinted = <<Printed("merge", "RemoteError")>>
       /\ \A i \in DOMAIN calls : Paths[i] # "delete"
       /\ Paths[Len(calls)] = "merge"
       /\ (\E j \in DOMAIN calls : Paths[j] = "reactivate" /\ StatusCodes[j] = 200)
            => active[row[1]]

\* C6 witness: the recovery reactivated the primary and the retry returned 500.
RetryFailedAfterReactivation ==
    /\ RowFinished
    /\ Paths = <<"merge", "reactivate", "merge">>
    /\ StatusCodes = <<400, 200, 500>>
    /\ active[row[1]]

\* C7: a finished row whose retried merge returned 200 or 204 leaves the
\* primary inactive, whatever the DELETE call returned.
RecoveryRestoresPrimary ==
    (RowFinished /\ (RetryReturned(200) \/ RetryReturned(204)))
    => ~active[row[1]]

\* C8: no row ends the batch: the run is never over with rows left unread.
NoRowAbortsBatch == pc \in {"aborted", "crashed"} => rows = <<>>

MergeRowEnded ==
    action = "merge" /\ calls # <<>> /\ pc \in {"loop", "aborted", "crashed"}

IsMergePath(p) == p = "merge"

\* C19: a row of a merge run that has called reactivate_requester does not end
\* before it has retried the merge, whatever the reactivate PUT and the
\* follow-up GET returned: the ended row has made two merge calls, the second
\* with the request of the first (same primary id, same secondary_requesters)
\* and right after the calls of the reactivation.
RetriesWhateverReactivateReturns ==
    (MergeRowEnded /\ Len(calls) >= 2)
    => /\ Len(SelectSeq(Paths, IsMergePath)) = 2
       /\ LET k == IF StatusCodes[2] = 404 THEN 4 ELSE 3
          IN  /\ Len(calls) >= k
              /\ calls[k].request = calls[1].request
              /\ \A i \in 2..(k - 1) : Paths[i] \in {"reactivate", "get"}

\* The calls of reactivate_requester: the PUT, and the GET after a 404
ReactivationPaths(st) ==
    IF st = 404 THEN <<"reactivate", "get">> ELSE <<"reactivate">>

\* C20: every row of a merge run follows the state machine of the merge: a
\* DELETE is only ever made right after a retried merge that returned 200 or
\* 204, a row never has more than one reactivation nor more than two merge
\* calls, and a row that has ended has gone one of the machine's paths to a
\* terminal state: the first merge alone with Success, NotFound or RemoteError;
\* or merge, reactivation, merge with RemoteError for a retry that returned
\* anything but 200 and 204; or merge, reactivation, merge, DELETE with Success.
MergeStateMachine ==
    action = "merge" =>
        /\ \A i \in DOMAIN calls :
              Paths[i] = "delete" =>
                  /\ i > 2 /\ Paths[i - 1] = "merge"
                  /\ StatusCodes[i - 1] \in {200, 204}
        /\ Len(SelectSeq(Paths, IsMergePath)) <= 2
        /\ \A i, j \in DOMAIN calls :
              (Paths[i] = "reactivate" /\ Paths[j] = "reactivate") => i = j
        /\ MergeRowEnded =>
              \/ /\ Paths = <<"merge">>
                 /\ ~AsksForActivePrimary(calls[1].result)
                 /\ \E o \in {"Success", "NotFound", "RemoteError"} :
                        printed = <<Printed("merge", o)>>
              \/ /\ AsksForActivePrimary(calls[1].result)
                 /\ Len(calls) >= 3
                 /\ LET recovery == <<"merge">> \o ReactivationPaths(StatusCodes[2]) \o <<"merge">>
                        retry == calls[Len(recovery)].result
                    IN  IF retry.status_code \in {200, 204}
                        THEN /\ Paths = recovery \o <<"delete">>
                             /\ MergePrinted = <<Printed("merge", "Success")>>
                        ELSE /\ Paths = recovery
                             /\ MergePrinted = <<Printed("merge", "RemoteError")>>

\* C27: a row of a merge run never has more than five calls, and a row with
\* five calls has made them in the order merge, reactivate, GET, merge,
\* DELETE, the reactivate PUT answered 404 and the retried merge 200 or 204;
\* a row whose reactivate PUT was answered otherwise has at most four calls.
AtMostFiveCalls ==
    action = "merge" =>
        /\ Len(calls) <= 5
        /\ Len(calls) = 5 =>
              /\ Paths = <<"merge", "reactivate", "get", "merge", "delete">>
              /\ StatusCodes[2] = 404
              /\ StatusCodes[4] \in {200, 204}
        /\ (Len(calls) >= 3 /\ StatusCodes[2] # 404) => Len(calls) <= 4
        /\ (Len(calls) >= 4 /\ StatusCodes[2] = 404) =>
              SubSeq(Paths, 1, 4) = <<"merge", "reactivate", "get", "merge">>

\* C27 witness: a row has ended after five calls.
EndedAfterFiveCalls ==
    /\ action = "merge" /\ RowFinished
    /\ Len(calls) = 5
    /\ StatusCodes[4] = 204

----------------------------------------------------------------------------
(* Properties of reactivate_requester and deactivate_requester *)

\* The row of a reactivate or deactivate run has ended, by its last print or
\* by an uncaught exception.
IdRowEnded(a) == action = a /\ calls # <<>> /\ pc \in {"loop", "crashed"}

\* C11: in a reactivate run, the follow-up GET is being made only after the
\* PUT returned 404, and a finished row has made the GET exactly when its PUT
\* returned 404; it has printed Success for PUT 200, RemoteError for any other
\* PUT status but 404, and after the GET: AlreadyInTargetState for 200 with
\* active true, RemoteError for 200 with active false or absent or with a body
\* that is not JSON, NotFound for 404 and RemoteError for any other status.
ReactivateInterpretation ==
    /\ (action = "reactivate" /\ pc = "check_status")
         => Paths = <<"reactivate", "get">> /\ StatusCodes[1] = 404
    /\ (action = "reactivate" /\ RowFinished)
         => LET put == calls[1].result
                get == calls[Len(calls)].result
            IN  /\ calls[1].request = Request("PUT", "reactivate", row[1], 0)
                /\ IF put.status_code = 404
                   THEN /\ Len(calls) = 2
                        /\ calls[2].request = Request("GET", "get", row[1], 0)
                        /\ printed = << Printed("reactivate",
                             CASE get.status_code = 200 /\ get.body.active = "true"
                                    -> "AlreadyInTargetState"
                               [] get.status_code = 200 /\ get.body.active # "true"
                                    -> "RemoteError"
                               [] get.status_code = 404 -> "NotFound"
                               [] OTHER -> "RemoteError") >>
                   ELSE /\ Len(calls) = 1
                        /\ printed = << Printed("reactivate",
                             IF put.status_code = 200 THEN "Success" ELSE "RemoteError") >>

\* C11 witness: PUT 404, then GET 200 with active false, ended in RemoteError.
InactiveAfterNotFound ==
    /\ action = "reactivate" /\ RowFinished
    /\ StatusCodes = <<404, 200>>
    /\ result.body.active = "false"
    /\ printed = <<Printed("reactivate", "RemoteError")>>

\* C12: a row of a deactivate run that has ended has dispatched exactly one
\* call, the DELETE of its requester, and has printed Success for 204,
\* NotFound for 404, AlreadyInTargetState for 405 with the message
\* DELETE_NOT_ALLOWED, and RemoteError for 405 with any other body and for any
\* other status.
DeactivateInterpretation ==
    IdRowEnded("deactivate")
    => /\ calls = << [request |-> Request("DELETE", "delete", row[1], 0),
                      result |-> result] >>
       /\ printed = << Printed("deactivate",
            CASE result.status_code = 204 -> "Success"
              [] result.status_code = 404 -> "NotFound"
              [] result.status_code = 405 /\ result.body.message = DELETE_NOT_ALLOWED
                    -> "AlreadyInTargetState"
              [] OTHER -> "RemoteError") >>

----------------------------------------------------------------------------
(* Properties of add_secondary_emails *)

\* The list sent as secondary_emails by the PUT of the current row
SentEmails == calls[2].request.param

\* C14: whenever a row has dispatched its PUT, the list it sends holds every
\* element of the list E the GET returned and of the list A of emails to add,
\* nothing else, and no element twice.
SendsSetUnion ==
    (action = "add_secondary_emails" /\ Len(calls) = 2)
    => LET E == calls[1].result.body.secondary_emails
           A == EmailsToAdd(row[2])
       IN  /\ SetOf(SentEmails) = SetOf(E) \cup SetOf(A)
           /\ \A i, j \in DOMAIN SentEmails :
                SentEmails[i] = SentEmails[j] => i = j

\* C14 witness: existing ["b@x.com", "a@x.com"], adding [" b@x.com", "a@x.com"]:
\* the PUT sent ["a@x.com", "b@x.com"].
SentUnionOfOverlappingLists ==
    /\ action = "add_secondary_emails" /\ RowFinished /\ Len(calls) = 2
    /\ calls[1].result.body.secondary_emails = <<"b@x.com", "a@x.com">>
    /\ row[2] = <<" b@x.com", "a@x.com">>
    /\ SentEmails = <<"a@x.com", "b@x.com">>

\* The GET of the current row has returned something the row cannot go on
\* with: a status other than 200, or a 200 whose secondary_emails is no list.
FailedRead ==
    /\ action = "add_secondary_emails" /\ calls # <<>>
    /\ LET get == calls[1].result
       IN  \/ get.status_code \notin {0, 200}
           \/ get.status_code = 200 /\ get.body.emails_type = "other"

\* C15: after a failed read the row never has a second call; the step that
\* interprets the failed read ends the row, dispatches nothing and leaves the
\* remote requester as it is; and the finished row has printed NotFound for
\* 404, RemoteError for the other statuses and UnexpectedFormat for the
\* non-list.
NoWriteOnFailedRead ==
    /\ [](FailedRead => Len(calls) = 1 /\ Paths = <<"get">>)
    /\ []((FailedRead /\ pc = "loop") =>
            printed = << Printed("add",
                CASE result.status_code = 200 -> "UnexpectedFormat"
                  [] result.status_code = 404 -> "NotFound"
                  [] OTHER -> "RemoteError") >>)
    /\ [][(FailedRead /\ pc = "fetch") =>
            /\ pc' = "loop" /\ dpc' = "idle"
            /\ calls' = calls
            /\ active' = active]_vars

\* C15 witness: a row ended on a GET 200 whose secondary_emails is no list.
EndedOnNonList ==
    /\ FailedRead /\ RowFinished
    /\ result.status_code = 200
    /\ printed = <<Printed("add", "UnexpectedFormat")>>

----------------------------------------------------------------------------
(* Properties of update_requester_emails and update_requester_external_id *)

\* The current row has an integer id and at least n cells.
ValidRow(n) == row # <<>> /\ Len(row) >= n /\ IsInteger(row[1])

\* C16: in an update_requester_emails run a row has a second call only once
\* its first call has returned 200, the first call sets the primary email and
\* the second the secondary one; a valid row that is finished has made two
\* calls if its first call returned 200 and exactly one call otherwise.
SecondCallOnlyAfterFirst200 ==
    action = "update_requester_emails" =>
        /\ calls # <<>> =>
              calls[1].request =
                  Request("PUT", "requester", ToInt(row[1]), <<"primary_email", Strip(row[2])>>)
        /\ Len(calls) <= 2
        /\ Len(calls) = 2 =>
              /\ calls[1].result.status_code = 200
              /\ calls[2].request =
                  Request("PUT", "requester", ToInt(row[1]), <<"secondary_emails", Strip(row[3])>>)
        /\ (ValidRow(3) /\ pc = "loop") =>
              Len(calls) = IF calls[1].result.status_code = 200 THEN 2 ELSE 1

\* C16 witness: a row ended after its first call returned 400.
EndedAfterFailedFirstCall ==
    /\ action = "update_requester_emails" /\ ValidRow(3) /\ pc = "loop"
    /\ StatusCodes = <<400>>
    /\ printed = <<Printed("set_primary", "RemoteError")>>

\* C17: in an update_external_id run a valid row that is finished has made
\* exactly one call, the PUT of its external id, and has printed Success for
\* 200, NotFound for 404 and RemoteError for any other status; no row has more
\* than one call at any time.
ExternalIdSinglePut ==
    action = "update_external_id" =>
        /\ Len(calls) <= 1
        /\ (ValidRow(2) /\ pc = "loop") =>
              /\ Len(calls) = 1
              /\ request = Request("PUT", "requester", ToInt(row[1]),
                                   <<"external_id", Strip(row[2])>>)
              /\ printed = << Printed("update_external_id",
                    CASE result.status_code = 200 -> "Success"
                      [] result.status_code = 404 -> "NotFound"
                      [] OTHER -> "RemoteError") >>

\* C17 witness: a row ended in NotFound after its one PUT returned 404.
ExternalIdNotFound ==
    /\ action = "update_external_id" /\ ValidRow(2) /\ pc = "loop"
    /\ StatusCodes = <<404>>
    /\ printed = <<Printed("update_external_id", "NotFound")>>

----------------------------------------------------------------------------
(* Properties of replace_secondary_emails *)

\* C9: a row whose clear call returns a status other than 200 ends there: it
\* appends the one error-log row "clear_secondary_emails" with that status,
\* nothing to the success log, and issues no set call; a row whose clear and
\* set calls both return 200 appends one row to the success log and none to
\* the error log; no other step of a row with a valid id writes to either log.
\* This holds in every state, so wherever the row stands in the file.
ReplaceRowIsolation ==
    /\ [][(pc = "clear" /\ dpc = "returned" /\ result.status_code # 200) =>
            /\ pc' = "loop"
            /\ calls' = calls /\ Len(calls) = 1
            /\ error_log' = Append(error_log,
                    ErrorEntry(ToText(request.id), "clear_secondary_emails", <<result.status_code>>))
            /\ success_log' = success_log]_vars
    /\ [][(pc = "clear" /\ ~(dpc = "returned" /\ result.status_code # 200)) =>
            UNCHANGED <<error_log, success_log>>]_vars
    /\ [][(pc = "set" /\ dpc = "returned" /\ result.status_code = 200) =>
            /\ pc' = "loop"
            /\ StatusCodes = <<200, 200>>
            /\ success_log' = Append(success_log,
                    [requester_id |-> ToText(request.id), secondary_emails |-> row[2]])
            /\ error_log' = error_log]_vars
    /\ [][(pc = "set" /\ dpc # "returned") => UNCHANGED <<error_log, success_log>>]_vars
    /\ [][(pc = "loop" /\ pc' = "clear") => UNCHANGED <<error_log, success_log>>]_vars

\* C9 witness: the row after a row whose clear call failed has succeeded.
SuccessAfterFailedClear ==
    /\ RowFinished
    /\ StatusCodes = <<200, 200>>
    /\ Len(success_log) = 1
    /\ Len(error_log) = 1
    /\ error_log[1].operation = "clear_secondary_emails"
    /\ error_log[1].status_code = <<500>>

\* The rows counted so far by the two counters together
RowsCounted == processed_successfully_count + processed_with_errors_count

\* C26: every data row read is counted once, by exactly one of the two
\* counters: the step that ends a row adds one to one counter and leaves the
\* other, no other step changes either; and at all times the success counter
\* is the number of rows of the success log and the error counter the number
\* of rows of the error log.
CountersPartitionRows ==
    /\ [](processed_successfully_count = Len(success_log))
    /\ [](processed_with_errors_count = Len(error_log))
    /\ [][(rows' # rows /\ pc' = "loop") => RowsCounted' = RowsCounted + 1]_vars
    /\ [][(pc # "loop" /\ pc' = "loop") => RowsCounted' = RowsCounted + 1]_vars
    /\ [][RowsCounted' # RowsCounted =>
            /\ pc' = "loop"
            /\ \/ /\ processed_successfully_count' = processed_successfully_count + 1
                  /\ processed_with_errors_count' = processed_with_errors_count
               \/ /\ processed_with_errors_count' = processed_with_errors_count + 1
                  /\ processed_successfully_count' = processed_successfully_count]_vars
    /\ []((pc = "loop" /\ rows = <<>>) => RowsCounted <= MaxRows)

\* C26 witness: a batch of MaxRows rows is over with one row counted as a
\* success and the others as errors.
BatchCountedBothWays ==
    /\ action = "replace_secondary_emails" /\ pc = "loop" /\ rows = <<>>
    /\ processed_successfully_count = 1
    /\ processed_with_errors_count = MaxRows - 1
    /\ Len(success_log) = 1 /\ Len(error_log) = MaxRows - 1

====
